---- MODULE Spec2Model ----
(***************************************************************************)
(* Model of the video ingestion pipeline of the tubely server:             *)
(*   handlerUploadVideo, dbVideoToSignedVideo, generatePresignedURL        *)
(*     (handler_upload_video.go),                                          *)
(*   getVideoAspectRatio (get_video_aspect_ratio.go),                      *)
(*   processVideoForFastStart (preprocess_video.go),                       *)
(*   handlerUploadThumbnail, contentTypeToExt (handler_upload_thumbnail.go)*)
(*                                                                         *)
(* Go strings are modelled as sequences: references, buckets and keys as    *)
(* sequences of one-character strings, header values and paths as          *)
(* sequences of tokens, so that trimming, searching and splitting are      *)
(* computed and not assumed.                                               *)
(***************************************************************************)
EXTENDS Integers, Sequences, FiniteSets, TLC

(***************************************************************************)
(* Bounds of the model.                                                    *)
(***************************************************************************)
\* longest stored reference the codec specification enumerates
MaxRefLen == 4
\* longest bucket and key together the codec specification enumerates
MaxPairLen == 4
\* number of draws of rand.Read the model follows
NumDraws == 2

(***************************************************************************)
(* Strings.                                                                *)
(***************************************************************************)
\* a nil *string (database.Video.VideoURL and .ThumbnailURL are *string);
\* distinct from every string, the empty one included
Nil == <<"<nil>">>

\* strings.TrimSpace: the characters it removes
IsSpace(c) == c \in {" ", "\t", "\n", "\r"}

RECURSIVE TrimLeft(_)
TrimLeft(s) ==
    IF s = <<>> THEN <<>>
    ELSE IF IsSpace(Head(s)) THEN TrimLeft(Tail(s))
    ELSE s

RECURSIVE TrimRight(_)
TrimRight(s) ==
    IF s = <<>> THEN <<>>
    ELSE IF IsSpace(s[Len(s)]) THEN TrimRight(SubSeq(s, 1, Len(s) - 1))
    ELSE s

\* strings.TrimSpace(s)
TrimSpace(s) == TrimRight(TrimLeft(s))

\* strings.Index(s, sub) + 1, or 0 when sub does not occur in s
Index(s, sub) ==
    LET at == {i \in 1..(Len(s) - Len(sub) + 1) :
                   SubSeq(s, i, i + Len(sub) - 1) = sub}
    IN  IF at = {} THEN 0 ELSE CHOOSE i \in at : \A j \in at : i <= j

\* strings.Contains(s, sub)
Contains(s, sub) == Index(s, sub) # 0

\* strings.SplitN(s, sep, 2): cut at the first sep, or the whole string alone
SplitN2(s, sep) ==
    LET i == Index(s, sep)
    IN  IF i = 0 THEN <<s>>
        ELSE <<SubSeq(s, 1, i - 1), SubSeq(s, i + Len(sep), Len(s))>>

\* decimal digits of a natural number, as fmt prints it
RECURSIVE Decimal(_)
Decimal(n) ==
    LET d == <<"0", "1", "2", "3", "4", "5", "6", "7", "8", "9">>
    IN  IF n < 10 THEN <<d[n + 1]>> ELSE Decimal(n \div 10) \o <<d[(n % 10) + 1]>>

\* hex.EncodeToString(b): two lower-case hex digits per byte
EncodeToString(b) ==
    LET d == <<"0", "1", "2", "3", "4", "5", "6", "7",
               "8", "9", "a", "b", "c", "d", "e", "f">>
    IN  [i \in 1..(2 * Len(b)) |->
            IF i % 2 = 1 THEN d[(b[(i + 1) \div 2] \div 16) + 1]
            ELSE d[(b[i \div 2] % 16) + 1]]

(***************************************************************************)
(* Reference codec (handler_upload_video.go).                              *)
(***************************************************************************)
\* the URL scheme delimiter searched for at line 47
SchemeDelim == <<":", "/", "/">>
Comma == <<",">>

\* validity window, in minutes, handed to generatePresignedURL at line 61
PresignMinutes == 15

\* the request no call to the presigner makes
NoPresign == [bucket |-> <<>>, key |-> <<>>, minutes |-> 0]

\* out.URL of PresignGetObject: an absolute URL for the object that carries
\* the expiry and a signature in its query
SignedMarker == <<"?", "X", "-", "A", "m", "z", "-", "E", "x", "p", "i", "r", "e", "s", "=">>
PresignedURL(bucket, key, minutes) ==
    <<"h", "t", "t", "p", "s">> \o SchemeDelim \o bucket \o <<"/">> \o key
        \o SignedMarker \o Decimal(minutes * 60) \o <<"&", "s", "i", "g">>

\* generatePresignedURL: the URL, or "" and the error of the presigner
generatePresignedURL(bucket, key, minutes, presignOk) ==
    IF presignOk
    THEN [url |-> PresignedURL(bucket, key, minutes), err |-> "nil"]
    ELSE [url |-> <<>>, err |-> "StorageFailure"]

\* faulty variant: the two sides of the reference in the wrong order
EncodeRef_Swapped(bucket, key) == key \o Comma \o bucket

\* fmt.Sprintf("%s,%s", bucket, key) at line 196
EncodeRef(bucket, key) == bucket \o Comma \o key

\* faulty variant: the two sides of the split are used as they are, untrimmed
dbVideoToSignedVideo_NoTrim(video, presignOk) ==
    LET unchanged(e) == [video |-> video, err |-> e, presign |-> NoPresign]
    IN  IF video.VideoURL = Nil \/ video.VideoURL = <<>> THEN unchanged("nil")
        ELSE
        LET raw == TrimSpace(video.VideoURL)
        IN  IF Contains(raw, SchemeDelim) THEN unchanged("nil")
            ELSE
            LET parts == SplitN2(raw, Comma)
            IN  IF Len(parts) # 2 THEN unchanged("MalformedReference")
                ELSE
                LET bucket == parts[1]
                    key == parts[2]
                IN  IF bucket = <<>> \/ key = <<>> THEN unchanged("MalformedReference")
                    ELSE
                    LET p == generatePresignedURL(bucket, key, PresignMinutes, presignOk)
                        asked == [bucket |-> bucket, key |-> key, minutes |-> PresignMinutes]
                    IN  IF p.err # "nil"
                        THEN [video |-> video, err |-> p.err, presign |-> asked]
                        ELSE [video |-> [video EXCEPT !.VideoURL = p.url],
                              err |-> "nil", presign |-> asked]

\* faulty variant: no back-compat branch for a reference that is already a URL
dbVideoToSignedVideo_NoPassThrough(video, presignOk) ==
    LET unchanged(e) == [video |-> video, err |-> e, presign |-> NoPresign]
    IN  IF video.VideoURL = Nil \/ video.VideoURL = <<>> THEN unchanged("nil")
        ELSE
        LET raw == TrimSpace(video.VideoURL)
            parts == SplitN2(raw, Comma)
        IN  IF Len(parts) # 2 THEN unchanged("MalformedReference")
            ELSE
            LET bucket == TrimSpace(parts[1])
                key == TrimSpace(parts[2])
            IN  IF bucket = <<>> \/ key = <<>> THEN unchanged("MalformedReference")
                ELSE
                LET p == generatePresignedURL(bucket, key, PresignMinutes, presignOk)
                    asked == [bucket |-> bucket, key |-> key, minutes |-> PresignMinutes]
                IN  IF p.err # "nil"
                    THEN [video |-> video, err |-> p.err, presign |-> asked]
                    ELSE [video |-> [video EXCEPT !.VideoURL = p.url],
                          err |-> "nil", presign |-> asked]

\* dbVideoToSignedVideo(video): the returned copy, the error, and the request
\* made to the presigner (NoPresign when none). presignOk is the outcome of
\* that request.
dbVideoToSignedVideo(video, presignOk) ==
    LET unchanged(e) == [video |-> video, err |-> e, presign |-> NoPresign]
    IN  IF video.VideoURL = Nil \/ video.VideoURL = <<>> THEN unchanged("nil")
        ELSE
        LET raw == TrimSpace(video.VideoURL)
        IN  IF Contains(raw, SchemeDelim) THEN unchanged("nil")
            ELSE
            LET parts == SplitN2(raw, Comma)
            IN  IF Len(parts) # 2 THEN unchanged("MalformedReference")
                ELSE
                LET bucket == TrimSpace(parts[1])
                    key == TrimSpace(parts[2])
                IN  IF bucket = <<>> \/ key = <<>> THEN unchanged("MalformedReference")
                    ELSE
                    LET p == generatePresignedURL(bucket, key, PresignMinutes, presignOk)
                        asked == [bucket |-> bucket, key |-> key, minutes |-> PresignMinutes]
                    IN  IF p.err # "nil"
                        THEN [video |-> video, err |-> p.err, presign |-> asked]
                        ELSE [video |-> [video EXCEPT !.VideoURL = p.url],
                              err |-> "nil", presign |-> asked]

(***************************************************************************)
(* Content types (mime.ParseMediaType, strings.ToLower). A header value is *)
(* a sequence of tokens and separators, e.g. <<"image", "/", "png">>.      *)
(***************************************************************************)
\* strings.ToLower, token by token
ToLowerTok(t) ==
    CASE t = "IMAGE" -> "image"
      [] t = "VIDEO" -> "video"
      [] t = "PNG" -> "png"
      [] t = "MP4" -> "mp4"
      [] OTHER -> t
ToLower(v) == [i \in 1..Len(v) |-> ToLowerTok(v[i])]

\* mime: a token is a non-empty run of non-separator characters
IsToken(t) == t \notin {"", "/", ";", "=", " ", "\t"}

\* mime.checkMediaTypeDisposition: token, or token "/" token
checkMediaTypeDisposition(base) ==
    \/ Len(base) = 1 /\ IsToken(base[1])
    \/ Len(base) = 3 /\ IsToken(base[1]) /\ base[2] = "/" /\ IsToken(base[3])

\* mime.ParseMediaType, the parameter loop: each parameter is
\* ";" token "=" token, surrounded by optional space; a lone trailing ";"
\* is ignored
RECURSIVE ParamsOK(_)
ParamsOK(rest) ==
    LET r == TrimLeft(rest)
    IN  IF r = <<>> THEN TRUE
        ELSE IF Head(r) # ";" THEN FALSE
        ELSE
        LET q == TrimLeft(Tail(r))
        IN  IF q = <<>> THEN TRUE
            ELSE /\ Len(q) >= 3
                 /\ IsToken(q[1]) /\ q[2] = "=" /\ IsToken(q[3])
                 /\ ParamsOK(SubSeq(q, 4, Len(q)))

\* mime.ParseMediaType(v): the lower-cased media type, or an error
ParseMediaType(v) ==
    LET i == Index(v, <<";">>)
        base == TrimSpace(ToLower(IF i = 0 THEN v ELSE SubSeq(v, 1, i - 1)))
        rest == IF i = 0 THEN <<>> ELSE SubSeq(v, i, Len(v))
    IN  IF checkMediaTypeDisposition(base) /\ ParamsOK(rest)
        THEN [mimeType |-> base, err |-> "nil"]
        ELSE [mimeType |-> <<>>, err |-> "mime"]

VideoMP4 == <<"video", "/", "mp4">>
ImageJPEG == <<"image", "/", "jpeg">>
ImageJPG == <<"image", "/", "jpg">>
ImagePNG == <<"image", "/", "png">>
ImageGIF == <<"image", "/", "gif">>

\* contentTypeToExt (handler_upload_thumbnail.go)
contentTypeToExt(contentType) ==
    LET l == ToLower(contentType)
    IN  IF l = ImageJPEG \/ l = ImageJPG THEN ".jpg"
        ELSE IF l = ImagePNG THEN ".png"
        ELSE IF l = ImageGIF THEN ".gif"
        ELSE ""

(***************************************************************************)
(* Metadata prober and orientation classifier (get_video_aspect_ratio.go). *)
(***************************************************************************)
\* float64 values are kept exactly, as binary fixed-point numbers: a
\* sequence of bits, most significant first, IntBits before the point and
\* FracBits after it. The window holds every float64 the classifier meets
\* for dimensions below 2^12: a ratio lies between 2^-12 and 2^12, and its
\* 53-bit significand ends no lower than 2^-64.
MantissaBits == 53
IntBits == 13
FracBits == 66
FixLen == IntBits + FracBits

RECURSIVE Pow2(_)
Pow2(n) == IF n = 0 THEN 1 ELSE 2 * Pow2(n - 1)

\* the bits of n, an integer below 2^IntBits
IntPartBits(n) == [i \in 1..IntBits |-> (n \div Pow2(IntBits - i)) % 2]

\* 2^k modulo h, by repeated squaring
RECURSIVE PowMod(_, _)
PowMod(k, h) ==
    IF k = 0 THEN 1 % h
    ELSE IF k % 2 = 0 THEN (PowMod(k \div 2, h) * PowMod(k \div 2, h)) % h
    ELSE (2 * PowMod(k - 1, h)) % h

\* long division of r by h (r < h): the remainder after k bits, and the
\* first n bits after the point
QuotientRem(r, h, k) == (r * PowMod(k, h)) % h
QuotientBits(r, h, n) == [k \in 1..n |-> (2 * QuotientRem(r, h, k - 1)) \div h]

\* position of the leading 1 bit, 0 when there is none
LeadingOne(bits) ==
    LET ones == {i \in 1..Len(bits) : bits[i] = 1}
    IN  IF ones = {} THEN 0 ELSE CHOOSE i \in ones : \A j \in ones : i <= j

\* bits with one unit added at position p; the carry runs to the left, up
\* to the nearest 0 bit
AddOneAt(bits, p) ==
    LET zeros == {j \in 1..p : bits[j] = 0}
        z == CHOOSE j \in zeros : \A x \in zeros : x <= j
    IN  [i \in 1..Len(bits) |->
            IF i < z \/ i > p THEN bits[i] ELSE IF i = z THEN 1 ELSE 0]

\* IEEE 754 round to nearest, ties to even, to MantissaBits significant
\* bits; inexact says that the bits given are already a truncation
RoundToFloat64(bits, inexact) ==
    LET k == LeadingOne(bits)
        last == k + MantissaBits - 1
    IN  IF k = 0 \/ last >= Len(bits) THEN bits
        ELSE
        LET guard == bits[last + 1]
            sticky == inexact \/ \E j \in (last + 2)..Len(bits) : bits[j] = 1
            kept == [i \in 1..Len(bits) |-> IF i <= last THEN bits[i] ELSE 0]
        IN  IF guard = 1 /\ (sticky \/ bits[last] = 1) THEN AddOneAt(kept, last)
            ELSE kept

\* float64(w) / float64(h) for positive integers below 2^12; also the
\* value of a constant such as 16.0/9.0 or 0.01, which Go evaluates exactly
\* and rounds once
Float64Div(w, h) ==
    RoundToFloat64(IntPartBits(w \div h) \o QuotientBits(w % h, h, FracBits),
                   QuotientRem(w % h, h, FracBits) # 0)

\* a <= b
Float64Leq(a, b) ==
    LET diff == {i \in 1..Len(a) : a[i] # b[i]}
    IN  diff = {} \/ LET i == CHOOSE x \in diff : \A y \in diff : x <= y
                     IN  a[i] < b[i]

\* a - b for a >= b, exactly; position i borrows from its left when the
\* bits of a from i on are a smaller number than those of b
BorrowsAt(a, b, i) ==
    LET diff == {j \in i..Len(a) : a[j] # b[j]}
    IN  diff # {} /\ LET j == CHOOSE x \in diff : \A y \in diff : x <= y
                     IN  a[j] < b[j]
ExactDiff(a, b) ==
    [i \in 1..Len(a) |->
        (a[i] - b[i] - (IF BorrowsAt(a, b, i + 1) THEN 1 ELSE 0) + 2) % 2]

\* math.Abs(a - b): the exact difference, rounded as the subtraction rounds
Float64AbsDiff(a, b) ==
    RoundToFloat64(IF Float64Leq(b, a) THEN ExactDiff(a, b) ELSE ExactDiff(b, a), FALSE)

\* the tolerance 0.01 of lines 59 and 62, as 1/TolDen
TolDen == 100
Tolerance == Float64Div(1, TolDen)
Ratio16x9 == Float64Div(16, 9)
Ratio9x16 == Float64Div(9, 16)

\* almostEqual(a, b, tol): math.Abs(a-b) <= tol
almostEqual(a, b, tol) == Float64Leq(Float64AbsDiff(a, b), tol)

\* what one run of ffprobe can give: the exit status, whether stdout is
\* JSON, and the streams it lists
ProbeOutputs ==
    {[run |-> "fail", json |-> "ok", streams |-> <<>>],
     [run |-> "ok", json |-> "bad", streams |-> <<>>],
     [run |-> "ok", json |-> "ok", streams |-> <<>>]}
    \cup {[run |-> "ok", json |-> "ok", streams |-> <<[Width |-> d[1], Height |-> d[2]]>>] :
              d \in {<<1920, 1080>>, <<1080, 1920>>, <<1000, 1000>>,
                     <<0, 1080>>, <<1920, 0>>}}

\* faulty variant: a width or height of zero is not refused, and the
\* ratio (infinite, or not a number) is classified as "other"
getVideoAspectRatio_NoZeroCheck(out) ==
    LET fail == [orientation |-> <<>>, err |-> "ProbeFailure"]
    IN  IF out.run # "ok" THEN fail
        ELSE IF out.json # "ok" THEN fail
        ELSE IF Len(out.streams) = 0 THEN fail
        ELSE
        LET width == out.streams[1].Width
            height == out.streams[1].Height
        IN  IF width = 0 \/ height = 0
            THEN [orientation |-> <<"o", "t", "h", "e", "r">>, err |-> "nil"]
            ELSE
            LET ratio == Float64Div(width, height)
            IN  IF almostEqual(ratio, Ratio16x9, Tolerance)
                THEN [orientation |-> <<"1", "6", ":", "9">>, err |-> "nil"]
                ELSE IF almostEqual(ratio, Ratio9x16, Tolerance)
                THEN [orientation |-> <<"9", ":", "1", "6">>, err |-> "nil"]
                ELSE [orientation |-> <<"o", "t", "h", "e", "r">>, err |-> "nil"]

\* getVideoAspectRatio, given the output of the ffprobe run
getVideoAspectRatio(out) ==
    LET fail == [orientation |-> <<>>, err |-> "ProbeFailure"]
    IN  IF out.run # "ok" THEN fail
        ELSE IF out.json # "ok" THEN fail
        ELSE IF Len(out.streams) = 0 THEN fail
        ELSE
        LET width == out.streams[1].Width
            height == out.streams[1].Height
        IN  IF width = 0 \/ height = 0 THEN fail
            ELSE
            LET ratio == Float64Div(width, height)
            IN  IF almostEqual(ratio, Ratio16x9, Tolerance)
                THEN [orientation |-> <<"1", "6", ":", "9">>, err |-> "nil"]
                ELSE IF almostEqual(ratio, Ratio9x16, Tolerance)
                THEN [orientation |-> <<"9", ":", "1", "6">>, err |-> "nil"]
                ELSE [orientation |-> <<"o", "t", "h", "e", "r">>, err |-> "nil"]

\* getVideoAspectRatio on each output of ProbeOutputs
ProbeResults == [out \in ProbeOutputs |-> getVideoAspectRatio(out)]

(***************************************************************************)
(* Faststart remuxer (preprocess_video.go).                                *)
(***************************************************************************)
\* what one run of ffmpeg can do: write the output and exit 0, exit
\* non-zero before creating the output, or exit non-zero after creating it
FFmpegOutcomes == {"ok", "fail", "fail_partial"}

Exists(d, path) == \E f \in d : f.path = path

\* processVideoForFastStart(filePath): the disk afterwards, the returned
\* path and the error. ffmpeg is run without -y and without a terminal, so
\* it refuses to overwrite an output path that exists.
processVideoForFastStart(d, filePath, by, outcome) ==
    LET outputPath == filePath \o <<".processing">>
        written == d \cup {[path |-> outputPath, by |-> by]}
    IN  IF Exists(d, outputPath)
        THEN [disk |-> d, path |-> <<>>, err |-> "RemuxFailure"]
        ELSE IF outcome = "ok"
        THEN [disk |-> written, path |-> outputPath, err |-> "nil"]
        ELSE IF outcome = "fail_partial"
        THEN [disk |-> written, path |-> <<>>, err |-> "RemuxFailure"]
        ELSE [disk |-> d, path |-> <<>>, err |-> "RemuxFailure"]

(***************************************************************************)
(* Storage key deriver (handler_upload_video.go, lines 174-180).           *)
(***************************************************************************)
\* the number of random bytes in a key, line 175
KeyBytes == 32

\* the draws of rand.Read this model follows
RandDraws == {[i \in 1..KeyBytes |-> (37 * i + 11 * k) % 256] : k \in 1..NumDraws}

\* faulty variant: the key without its orientation tag
MakeKey_Untagged(orientation, b) == EncodeToString(b) \o <<".", "m", "p", "4">>

\* fmt.Sprintf("%s-%s.mp4", orientation, hex.EncodeToString(b))
MakeKey(orientation, b) ==
    orientation \o <<"-">> \o EncodeToString(b) \o <<".", "m", "p", "4">>

(***************************************************************************)
(* The server: its collaborators and the requests in flight.               *)
(***************************************************************************)
VARIABLES
    cfg,      \* apiConfig: s3Bucket, port, assetsRoot
    db,       \* record store: video identifier -> database.Video
    disk,     \* files on disk: [path, by], by the request that created it
    s3,       \* objects in the object store: [bucket, key, contentType]
    req,      \* per worker, the request it serves: position and locals
    codec     \* a pure function applied on its own (SpecCodec, SpecClassify)

vars == <<cfg, db, disk, s3, req, codec>>

\* one worker (goroutine) per request, supplied by net/http; each serves one
\* request, and the request is named after it
Workers == {1, 2}

\* the users the identity check knows, and the owner of the record
Users == {"alice", "bob"}
Owner == "alice"

\* the record the store holds, and an identifier it holds no record for
VideoIDs == {"v1"}
PathVideoIDs == {"v1", "v2", "not-a-uuid"}

\* bearer credentials a request can carry: none, one the JWT check rejects,
\* or a valid token of a user
Credentials == {"none", "invalid"} \cup Users

\* names os.CreateTemp can draw for "tubely-upload.mp4" + random digits
TempNames == {<<"tubely-upload.mp4-1">>, <<"tubely-upload.mp4-2">>}

\* values S3_BUCKET can be given: a bucket of the object store, and a
\* string that names no bucket
Buckets == {<<"t", "b", "-", "1">>, <<"s", "3", ":", "/", "/", "t", ",", "b">>}

\* Content-Type values of the uploaded part
VideoContentTypes ==
    {<<>>, VideoMP4, <<"video", "/", "avi">>, <<"video", "/">>,
     <<"VIDEO", "/", "MP4", ";", " ", "codecs", "=", "avc1">>}
ThumbContentTypes ==
    {<<>>, ImageJPEG, ImagePNG, ImageGIF, ImageJPG, <<"image", "/">>,
     <<"IMAGE", "/", "PNG">>, <<"image", "/", "png", ";", " ", "q", "=", "1">>,
     <<"image", "/", "webp">>}

NoPath == <<>>
NoVideo == [ID |-> "", UserID |-> "", VideoURL |-> Nil, ThumbnailURL |-> Nil]
NoCalls == [temp |-> 0, probe |-> 0, remux |-> 0, put |-> 0, update |-> 0,
            presign |-> 0, create |-> 0]

\* a worker serving no request; stages lists the stages of the upload
\* pipeline the request has completed, responses counts the responses
\* written, canceled is the position at which r.Context() was canceled
Idle ==
    [pc |-> "idle", id |-> 0, kind |-> "", videoID |-> "", userID |-> "",
     formFile |-> FALSE, contentType |-> <<>>, mimeType |-> <<>>,
     video |-> NoVideo, dst |-> NoPath, processedPath |-> NoPath,
     probed |-> <<>>, orientation |-> <<>>,
     key |-> <<>>, status |-> 0, failed |-> "", body |-> NoVideo,
     presign |-> NoPresign, calls |-> NoCalls,
     stages |-> <<>>, responses |-> 0, canceled |-> ""]

Init ==
    /\ cfg \in [s3Bucket : Buckets, port : {"8091"}, assetsRoot : {"assets"}]
    /\ db = [v \in VideoIDs |->
                [ID |-> v, UserID |-> Owner, VideoURL |-> Nil, ThumbnailURL |-> Nil]]
    /\ disk = {}
    /\ s3 = {}
    /\ req = [w \in Workers |-> Idle]
    /\ codec = [phase |-> "off"]

(***************************************************************************)
(* Collaborators outside src/.                                             *)
(***************************************************************************)
\* uuid.Parse(videoIDString)
uuidParse(s) == IF s = "not-a-uuid" THEN [id |-> "", err |-> "InvalidIdentifier"]
                ELSE [id |-> s, err |-> "nil"]

\* auth.GetBearerToken followed by auth.ValidateJWT
authenticate(cred) ==
    IF cred \in Users THEN [userID |-> cred, err |-> "nil"]
    ELSE [userID |-> "", err |-> "AuthenticationFailure"]

\* cfg.db.GetVideo(videoID)
GetVideo(d, videoID) ==
    IF videoID \in DOMAIN d THEN [video |-> d[videoID], err |-> "nil"]
    ELSE [video |-> NoVideo, err |-> "NotFound"]

\* cfg.db.UpdateVideo(video): one atomic write of the record it is given
UpdateVideo(d, video) == [d EXCEPT ![video.ID] = video]

\* os.Remove(path)
Remove(d, path) == {f \in d : f.path # path}

\* os.Create(path) and os.CreateTemp: the file is created (or truncated)
Create(d, path, by) == Remove(d, path) \cup {[path |-> path, by |-> by]}

(***************************************************************************)
(* handlerUploadVideo.                                                     *)
(***************************************************************************)
\* the deferred os.Remove calls of lines 137 and 164, run when the handler
\* returns; a defer is registered only once its statement was reached
RunDefers(d, r) ==
    LET d1 == IF r.processedPath # NoPath THEN Remove(d, r.processedPath) ELSE d
    IN  IF r.dst # NoPath THEN Remove(d1, r.dst) ELSE d1

\* respondWithError(w, status, ...) followed by return
Fail(r, status, kind) ==
    [r EXCEPT !.pc = "done", !.status = status, !.failed = kind, !.responses = @ + 1]

\* a stage of the pipeline has succeeded
Stage(r, name) == [r EXCEPT !.stages = Append(@, name)]

\* net/http hands a new request to a worker of its own; the workers are
\* interchangeable, so the model takes the first one that has served none
Free(w) ==
    /\ req[w].pc = "idle"
    /\ \A v \in Workers : req[v].pc = "idle" => w <= v

\* lines 72-89: path parameter and identity
VBegin(w) ==
    /\ Free(w)
    /\ \E idString \in PathVideoIDs, cred \in Credentials :
        LET r0 == [Idle EXCEPT !.id = w, !.kind = "video"]
            parsed == uuidParse(idString)
            who == authenticate(cred)
        IN  req' = [req EXCEPT ![w] =
                IF parsed.err # "nil" THEN Fail(r0, 400, parsed.err)
                ELSE IF who.err # "nil" THEN Fail([r0 EXCEPT !.videoID = parsed.id], 401, who.err)
                ELSE [r0 EXCEPT !.pc = "get", !.videoID = parsed.id, !.userID = who.userID]]
    /\ UNCHANGED <<cfg, db, disk, s3, codec>>

\* faulty variant: the ownership check of lines 98-102 is missing
VGetVideo_NoOwnerCheck(w) ==
    /\ req[w].pc = "get"
    /\ LET r == req[w]
           got == GetVideo(db, r.videoID)
       IN  req' = [req EXCEPT ![w] =
               IF got.err # "nil" THEN Fail(r, 404, got.err)
               ELSE [r EXCEPT !.pc = "form", !.video = got.video]]
    /\ UNCHANGED <<cfg, db, disk, s3, codec>>

\* faulty variant: the return after the 401 response of line 100 is missing
VGetVideo_NoReturn(w) ==
    /\ req[w].pc = "get"
    /\ LET r == req[w]
           got == GetVideo(db, r.videoID)
       IN  req' = [req EXCEPT ![w] =
               IF got.err # "nil" THEN Fail(r, 404, got.err)
               ELSE IF got.video.UserID # r.userID
                    THEN [r EXCEPT !.pc = "form", !.video = got.video, !.status = 401,
                                   !.responses = @ + 1]
               ELSE [r EXCEPT !.pc = "form", !.video = got.video]]
    /\ UNCHANGED <<cfg, db, disk, s3, codec>>

\* lines 91-102: fetch the record, check ownership
VGetVideo(w) ==
    /\ req[w].pc = "get"
    /\ LET r == req[w]
           got == GetVideo(db, r.videoID)
       IN  req' = [req EXCEPT ![w] =
               IF got.err # "nil" THEN Fail(r, 404, got.err)
               ELSE IF got.video.UserID # r.userID
                    THEN Fail([r EXCEPT !.video = got.video], 401, "AuthorizationFailure")
               ELSE [r EXCEPT !.pc = "form", !.video = got.video]]
    /\ UNCHANGED <<cfg, db, disk, s3, codec>>

\* faulty variant: the media type is parsed but not compared with video/mp4
VParseForm_AnyType(w) ==
    /\ req[w].pc = "form"
    /\ \E hasFile \in BOOLEAN, contentType \in VideoContentTypes :
        LET r == req[w]
            r1 == [r EXCEPT !.formFile = TRUE, !.contentType = contentType]
            parsed == ParseMediaType(contentType)
        IN  req' = [req EXCEPT ![w] =
                IF ~hasFile THEN Fail(r, 400, "ValidationError")
                ELSE IF contentType = <<>> THEN Fail(r1, 400, "ValidationError")
                ELSE IF parsed.err # "nil" THEN Fail(r1, 400, "ValidationError")
                ELSE Stage([r1 EXCEPT !.pc = "temp", !.mimeType = parsed.mimeType], "Validated")]
    /\ UNCHANGED <<cfg, db, disk, s3, codec>>

\* lines 104-128: the multipart part and its content type
VParseForm(w) ==
    /\ req[w].pc = "form"
    /\ \E hasFile \in BOOLEAN, contentType \in VideoContentTypes :
        LET r == req[w]
            r1 == [r EXCEPT !.formFile = TRUE, !.contentType = contentType]
            parsed == ParseMediaType(contentType)
        IN  req' = [req EXCEPT ![w] =
                IF ~hasFile THEN Fail(r, 400, "ValidationError")
                ELSE IF contentType = <<>> THEN Fail(r1, 400, "ValidationError")
                ELSE IF parsed.err # "nil" THEN Fail(r1, 400, "ValidationError")
                ELSE IF parsed.mimeType # VideoMP4 THEN Fail(r1, 400, "ValidationError")
                ELSE Stage([r1 EXCEPT !.pc = "temp", !.mimeType = parsed.mimeType], "Validated")]
    /\ UNCHANGED <<cfg, db, disk, s3, codec>>

\* faulty variant: the file is made with os.Create under a drawn name,
\* whether or not a file of that name exists
VCreateTemp_AnyName(w) ==
    /\ req[w].pc = "temp"
    /\ LET r == req[w]
       IN  \/ /\ req' = [req EXCEPT ![w] = Fail(r, 500, "TempFileFailure")]
              /\ disk' = disk
           \/ \E name \in TempNames :
                /\ disk' = Create(disk, name, r.id)
                /\ req' = [req EXCEPT ![w] =
                       [r EXCEPT !.pc = "copy", !.dst = name,
                                 !.calls.temp = r.calls.temp + 1]]
    /\ UNCHANGED <<cfg, db, s3, codec>>

\* lines 130-137: os.CreateTemp draws a name no file has (O_EXCL)
VCreateTemp(w) ==
    /\ req[w].pc = "temp"
    /\ LET r == req[w]
       IN  \/ /\ req' = [req EXCEPT ![w] = Fail(r, 500, "TempFileFailure")]
              /\ disk' = disk
           \/ \E name \in TempNames :
                /\ ~Exists(disk, name)
                /\ disk' = Create(disk, name, r.id)
                /\ req' = [req EXCEPT ![w] =
                       [r EXCEPT !.pc = "copy", !.dst = name,
                                 !.calls.temp = r.calls.temp + 1]]
    /\ UNCHANGED <<cfg, db, s3, codec>>

\* lines 139-149: io.Copy and Seek
VCopy(w) ==
    /\ req[w].pc = "copy"
    /\ LET r == req[w]
       IN  \/ /\ req' = [req EXCEPT ![w] = Fail(r, 500, "TempFileFailure")]
              /\ disk' = RunDefers(disk, r)
           \/ /\ req' = [req EXCEPT ![w] = [r EXCEPT !.pc = "probe"]]
              /\ disk' = disk
    /\ UNCHANGED <<cfg, db, s3, codec>>

\* faulty variant: the error of the probe is dropped and the upload goes on
VProbe_IgnoresError(w) ==
    /\ req[w].pc = "probe"
    /\ \E out \in ProbeOutputs :
        LET r == [req[w] EXCEPT !.calls.probe = @ + 1]
            got == ProbeResults[out]
        IN  /\ req' = [req EXCEPT ![w] =
                   IF got.err # "nil"
                   THEN [r EXCEPT !.pc = "remux", !.probed = out.streams]
                   ELSE Stage([r EXCEPT !.pc = "remux", !.probed = out.streams,
                                        !.orientation = got.orientation], "Probed")]
            /\ disk' = disk
    /\ UNCHANGED <<cfg, db, s3, codec>>

\* lines 151-156: getVideoAspectRatio(dst.Name())
VProbe(w) ==
    /\ req[w].pc = "probe"
    /\ \E out \in ProbeOutputs :
        LET r == [req[w] EXCEPT !.calls.probe = @ + 1]
            got == ProbeResults[out]
        IN  IF got.err # "nil"
            THEN /\ req' = [req EXCEPT ![w] =
                        Fail([r EXCEPT !.probed = out.streams], 500, got.err)]
                 /\ disk' = RunDefers(disk, r)
            ELSE /\ req' = [req EXCEPT ![w] =
                        Stage([r EXCEPT !.pc = "remux", !.probed = out.streams,
                                        !.orientation = got.orientation], "Probed")]
                 /\ disk' = disk
    /\ UNCHANGED <<cfg, db, s3, codec>>

\* lines 158-164: processVideoForFastStart(dst.Name())
VRemux(w) ==
    /\ req[w].pc = "remux"
    /\ \E outcome \in FFmpegOutcomes :
        LET r == [req[w] EXCEPT !.calls.remux = @ + 1]
            got == processVideoForFastStart(disk, r.dst, r.id, outcome)
        IN  IF got.err # "nil"
            THEN /\ req' = [req EXCEPT ![w] = Fail(r, 500, got.err)]
                 /\ disk' = RunDefers(got.disk, r)
            ELSE /\ req' = [req EXCEPT ![w] =
                        Stage([r EXCEPT !.pc = "open", !.processedPath = got.path],
                              "Remuxed")]
                 /\ disk' = got.disk
    /\ UNCHANGED <<cfg, db, s3, codec>>

\* lines 166-172: os.Open(processedPath)
VOpen(w) ==
    /\ req[w].pc = "open"
    /\ LET r == req[w]
       IN  \/ /\ req' = [req EXCEPT ![w] = Fail(r, 500, "TempFileFailure")]
              /\ disk' = RunDefers(disk, r)
           \/ /\ Exists(disk, r.processedPath)
              /\ req' = [req EXCEPT ![w] = [r EXCEPT !.pc = "key"]]
              /\ disk' = disk
    /\ UNCHANGED <<cfg, db, s3, codec>>

\* lines 174-180: rand.Read and the key
VGenKey(w) ==
    /\ req[w].pc = "key"
    /\ LET r == req[w]
       IN  \/ /\ req' = [req EXCEPT ![w] = Fail(r, 500, "KeyGenerationFailure")]
              /\ disk' = RunDefers(disk, r)
           \/ \E b \in RandDraws :
                /\ req' = [req EXCEPT ![w] =
                       Stage([r EXCEPT !.pc = "put", !.key = MakeKey(r.orientation, b)],
                             "KeyDerived")]
                /\ disk' = disk
    /\ UNCHANGED <<cfg, db, s3, codec>>

\* the object store names buckets with 3 to 63 lower-case letters, digits,
\* dots and hyphens, and answers a request for any other name with an error
BucketChars ==
    {"a", "b", "c", "d", "e", "f", "g", "h", "i", "j", "k", "l", "m", "n", "o",
     "p", "q", "r", "s", "t", "u", "v", "w", "x", "y", "z", "0", "1", "2", "3",
     "4", "5", "6", "7", "8", "9", ".", "-"}
ValidBucketName(b) ==
    /\ Len(b) >= 3 /\ Len(b) <= 63
    /\ \A i \in 1..Len(b) : b[i] \in BucketChars
    /\ b[1] \notin {".", "-"} /\ b[Len(b)] \notin {".", "-"}

\* where r.Context() is canceled. Only PutObject is given the context, so
\* the positions before the put are one case, taken at the probe, and the
\* positions after it another, taken at the record update
CancelPoints == {"probe", "update"}

\* the client goes away: net/http cancels r.Context()
VCancel(w) ==
    /\ req[w].kind = "video"
    /\ req[w].pc \in CancelPoints
    /\ req[w].canceled = ""
    /\ req' = [req EXCEPT ![w].canceled = req[w].pc]
    /\ UNCHANGED <<cfg, db, disk, s3, codec>>

\* faulty variant: a failed put is answered with 500
VPut_InternalError(w) ==
    /\ req[w].pc = "put"
    /\ LET r == [req[w] EXCEPT !.calls.put = @ + 1]
           object == [bucket |-> cfg.s3Bucket, key |-> r.key,
                      contentType |-> r.mimeType]
           accepted == r.canceled = "" /\ ValidBucketName(cfg.s3Bucket)
       IN  \/ /\ req' = [req EXCEPT ![w] = Fail(r, 500, "StorageFailure")]
              /\ disk' = RunDefers(disk, r)
              /\ s3' \in IF accepted THEN {s3, s3 \cup {object}} ELSE {s3}
           \/ /\ accepted
              /\ req' = [req EXCEPT ![w] = Stage([r EXCEPT !.pc = "update"], "Uploaded")]
              /\ disk' = disk
              /\ s3' = s3 \cup {object}
    /\ UNCHANGED <<cfg, db, codec>>

\* faulty variant: a put that failed is tried once more
VPut_Retry(w) ==
    /\ req[w].pc = "put"
    /\ LET r == [req[w] EXCEPT !.calls.put = @ + 1]
           object == [bucket |-> cfg.s3Bucket, key |-> r.key,
                      contentType |-> r.mimeType]
           accepted == r.canceled = "" /\ ValidBucketName(cfg.s3Bucket)
       IN  \/ /\ req' = [req EXCEPT ![w] =
                     IF r.calls.put < 2 THEN r ELSE Fail(r, 502, "StorageFailure")]
              /\ disk' = IF r.calls.put < 2 THEN disk ELSE RunDefers(disk, r)
              /\ s3' \in IF accepted THEN {s3, s3 \cup {object}} ELSE {s3}
           \/ /\ accepted
              /\ req' = [req EXCEPT ![w] = Stage([r EXCEPT !.pc = "update"], "Uploaded")]
              /\ disk' = disk
              /\ s3' = s3 \cup {object}
    /\ UNCHANGED <<cfg, db, codec>>

\* faulty variant: the context handed to PutObject is context.Background()
VPut_Background(w) ==
    /\ req[w].pc = "put"
    /\ LET r == [req[w] EXCEPT !.calls.put = @ + 1]
           object == [bucket |-> cfg.s3Bucket, key |-> r.key,
                      contentType |-> r.mimeType]
           accepted == ValidBucketName(cfg.s3Bucket)
       IN  \/ /\ req' = [req EXCEPT ![w] = Fail(r, 502, "StorageFailure")]
              /\ disk' = RunDefers(disk, r)
              /\ s3' \in IF accepted THEN {s3, s3 \cup {object}} ELSE {s3}
           \/ /\ accepted
              /\ req' = [req EXCEPT ![w] = Stage([r EXCEPT !.pc = "update"], "Uploaded")]
              /\ disk' = disk
              /\ s3' = s3 \cup {object}
    /\ UNCHANGED <<cfg, db, codec>>

\* faulty variant: the store takes a put under any bucket name
VPut_AnyBucket(w) ==
    /\ req[w].pc = "put"
    /\ LET r == [req[w] EXCEPT !.calls.put = @ + 1]
           object == [bucket |-> cfg.s3Bucket, key |-> r.key,
                      contentType |-> r.mimeType]
           accepted == r.canceled = ""
       IN  \/ /\ req' = [req EXCEPT ![w] = Fail(r, 502, "StorageFailure")]
              /\ disk' = RunDefers(disk, r)
              /\ s3' \in IF accepted THEN {s3, s3 \cup {object}} ELSE {s3}
           \/ /\ accepted
              /\ req' = [req EXCEPT ![w] = Stage([r EXCEPT !.pc = "update"], "Uploaded")]
              /\ disk' = disk
              /\ s3' = s3 \cup {object}
    /\ UNCHANGED <<cfg, db, codec>>

\* lines 182-193: PutObject(r.Context(), ...). A failed put may or may not
\* have stored the object; with a canceled context, or a bucket name the
\* store does not accept, nothing is stored.
VPut(w) ==
    /\ req[w].pc = "put"
    /\ LET r == [req[w] EXCEPT !.calls.put = @ + 1]
           object == [bucket |-> cfg.s3Bucket, key |-> r.key,
                      contentType |-> r.mimeType]
           accepted == r.canceled = "" /\ ValidBucketName(cfg.s3Bucket)
       IN  \/ /\ req' = [req EXCEPT ![w] = Fail(r, 502, "StorageFailure")]
              /\ disk' = RunDefers(disk, r)
              /\ s3' \in IF accepted THEN {s3, s3 \cup {object}} ELSE {s3}
           \/ /\ accepted
              /\ req' = [req EXCEPT ![w] = Stage([r EXCEPT !.pc = "update"], "Uploaded")]
              /\ disk' = disk
              /\ s3' = s3 \cup {object}
    /\ UNCHANGED <<cfg, db, codec>>

\* faulty variant: when the update fails, the uploaded object is deleted
VUpdate_Compensates(w) ==
    /\ req[w].pc = "update"
    /\ LET raw == EncodeRef(cfg.s3Bucket, req[w].key)
           r == [req[w] EXCEPT !.calls.update = @ + 1, !.video.VideoURL = raw]
       IN  \/ /\ req' = [req EXCEPT ![w] = Fail(r, 500, "PersistenceFailure")]
              /\ disk' = RunDefers(disk, r)
              /\ db' = db
              /\ s3' = {o \in s3 : o.key # r.key}
           \/ /\ req' = [req EXCEPT ![w] = Stage([r EXCEPT !.pc = "sign"], "Persisted")]
              /\ disk' = disk
              /\ db' = UpdateVideo(db, r.video)
              /\ s3' = s3
    /\ UNCHANGED <<cfg, codec>>

\* lines 195-201: the compact reference is set in the fetched copy, and the
\* copy is handed to UpdateVideo
VUpdate(w) ==
    /\ req[w].pc = "update"
    /\ LET raw == EncodeRef(cfg.s3Bucket, req[w].key)
           r == [req[w] EXCEPT !.calls.update = @ + 1, !.video.VideoURL = raw]
       IN  \/ /\ req' = [req EXCEPT ![w] = Fail(r, 500, "PersistenceFailure")]
              /\ disk' = RunDefers(disk, r)
              /\ db' = db
           \/ /\ req' = [req EXCEPT ![w] = Stage([r EXCEPT !.pc = "sign"], "Persisted")]
              /\ disk' = disk
              /\ db' = UpdateVideo(db, r.video)
    /\ UNCHANGED <<cfg, s3, codec>>

\* faulty variant: the signed copy is saved to the record store
VSign_WritesBack(w) ==
    /\ req[w].pc = "sign"
    /\ \E presignOk \in BOOLEAN :
      \E got \in {dbVideoToSignedVideo(req[w].video, presignOk)} :
        LET r == [req[w] EXCEPT !.presign = got.presign,
                                !.calls.presign = @ + (IF got.presign = NoPresign THEN 0 ELSE 1)]
        IN  /\ req' = [req EXCEPT ![w] =
                   IF got.err # "nil" THEN Fail(r, 500, got.err)
                   ELSE Stage([r EXCEPT !.pc = "done", !.status = 200, !.body = got.video,
                                        !.responses = @ + 1], "Signed")]
            /\ db' = IF got.err = "nil" THEN UpdateVideo(db, got.video) ELSE db
            /\ disk' = RunDefers(disk, r)
    /\ UNCHANGED <<cfg, s3, codec>>

\* lines 203-210: sign the copy for the response
VSign(w) ==
    /\ req[w].pc = "sign"
    /\ \E presignOk \in BOOLEAN :
      \E got \in {dbVideoToSignedVideo(req[w].video, presignOk)} :
        LET r == [req[w] EXCEPT !.presign = got.presign,
                                !.calls.presign = @ + (IF got.presign = NoPresign THEN 0 ELSE 1)]
        IN  /\ req' = [req EXCEPT ![w] =
                   IF got.err # "nil" THEN Fail(r, 500, got.err)
                   ELSE Stage([r EXCEPT !.pc = "done", !.status = 200, !.body = got.video,
                                        !.responses = @ + 1], "Signed")]
            /\ disk' = RunDefers(disk, r)
    /\ UNCHANGED <<cfg, db, s3, codec>>

(***************************************************************************)
(* handlerUploadThumbnail.                                                 *)
(***************************************************************************)
\* lines 30-49: path parameter and identity
TBegin(w) ==
    /\ Free(w)
    /\ \E idString \in PathVideoIDs, cred \in Credentials :
        LET r0 == [Idle EXCEPT !.id = w, !.kind = "thumbnail"]
            parsed == uuidParse(idString)
            who == authenticate(cred)
        IN  req' = [req EXCEPT ![w] =
                IF parsed.err # "nil" THEN Fail(r0, 400, parsed.err)
                ELSE IF who.err # "nil" THEN Fail([r0 EXCEPT !.videoID = parsed.id], 401, who.err)
                ELSE [r0 EXCEPT !.pc = "t_form", !.videoID = parsed.id, !.userID = who.userID]]
    /\ UNCHANGED <<cfg, db, disk, s3, codec>>

\* lines 51-76: the multipart part and its content type
TParseForm(w) ==
    /\ req[w].pc = "t_form"
    /\ \E hasFile \in BOOLEAN, contentType \in ThumbContentTypes :
        LET r == req[w]
            r1 == [r EXCEPT !.formFile = TRUE, !.contentType = contentType]
            parsed == ParseMediaType(contentType)
        IN  req' = [req EXCEPT ![w] =
                IF ~hasFile THEN Fail(r, 400, "ValidationError")
                ELSE IF contentType = <<>> THEN Fail(r1, 400, "ValidationError")
                ELSE IF parsed.err # "nil" THEN Fail(r1, 400, "ValidationError")
                ELSE IF parsed.mimeType # ImageJPEG /\ parsed.mimeType # ImagePNG
                     THEN Fail(r1, 400, "ValidationError")
                ELSE [r1 EXCEPT !.pc = "t_get", !.mimeType = parsed.mimeType]]
    /\ UNCHANGED <<cfg, db, disk, s3, codec>>

\* lines 78-89: fetch the record, check ownership
TGetVideo(w) ==
    /\ req[w].pc = "t_get"
    /\ LET r == req[w]
           got == GetVideo(db, r.videoID)
       IN  req' = [req EXCEPT ![w] =
               IF got.err # "nil" THEN Fail(r, 404, got.err)
               ELSE IF got.video.UserID # r.userID
                    THEN Fail([r EXCEPT !.video = got.video], 401, "AuthorizationFailure")
               ELSE [r EXCEPT !.pc = "t_create", !.video = got.video]]
    /\ UNCHANGED <<cfg, db, disk, s3, codec>>

\* filepath.Join(cfg.assetsRoot, filename), filename = videoID + ext
AssetName(videoID, ext) == <<videoID, ext>>
AssetPath(root, videoID, ext) == <<root, "/">> \o AssetName(videoID, ext)

\* fmt.Sprintf("http://localhost:%s/assets/%s", cfg.port, filename)
PublicURL(port, videoID, ext) ==
    <<"http", ":", "/", "/", "localhost", ":", port, "/", "assets", "/">>
        \o AssetName(videoID, ext)

\* lines 91-108: the extension of the content type, and os.Create
TCreate(w) ==
    /\ req[w].pc = "t_create"
    /\ LET r == req[w]
           ext == contentTypeToExt(r.contentType)
           filePath == AssetPath(cfg.assetsRoot, r.videoID, ext)
       IN  IF ext = ""
           THEN /\ req' = [req EXCEPT ![w] = Fail(r, 400, "ValidationError")]
                /\ disk' = disk
           ELSE \/ /\ req' = [req EXCEPT ![w] = Fail(r, 500, "FileFailure")]
                   /\ disk' = disk
                \/ /\ req' = [req EXCEPT ![w] =
                          [r EXCEPT !.pc = "t_copy", !.dst = filePath,
                                    !.calls.create = @ + 1]]
                   /\ disk' = Create(disk, filePath, r.id)
    /\ UNCHANGED <<cfg, db, s3, codec>>

\* lines 110-114: io.Copy
TCopy(w) ==
    /\ req[w].pc = "t_copy"
    /\ LET r == req[w]
       IN  \/ req' = [req EXCEPT ![w] = Fail(r, 500, "FileFailure")]
           \/ req' = [req EXCEPT ![w] = [r EXCEPT !.pc = "t_update"]]
    /\ UNCHANGED <<cfg, db, disk, s3, codec>>

\* lines 116-126: the public URL is set in the fetched copy, and the copy is
\* handed to UpdateVideo
TUpdate(w) ==
    /\ req[w].pc = "t_update"
    /\ LET publicURL == PublicURL(cfg.port, req[w].videoID,
                                  contentTypeToExt(req[w].contentType))
           r == [req[w] EXCEPT !.calls.update = @ + 1,
                               !.video.ThumbnailURL = publicURL]
       IN  \/ /\ req' = [req EXCEPT ![w] = Fail(r, 500, "PersistenceFailure")]
              /\ db' = db
           \/ /\ req' = [req EXCEPT ![w] =
                     [r EXCEPT !.pc = "done", !.status = 200, !.body = r.video,
                               !.responses = @ + 1]]
              /\ db' = UpdateVideo(db, r.video)
    /\ UNCHANGED <<cfg, disk, s3, codec>>

Next ==
    \E w \in Workers :
        \/ VBegin(w)
        \/ VGetVideo(w)
        \/ VParseForm(w)
        \/ VCreateTemp(w)
        \/ VCopy(w)
        \/ VProbe(w)
        \/ VRemux(w)
        \/ VOpen(w)
        \/ VGenKey(w)
        \/ VCancel(w)
        \/ VPut(w)
        \/ VUpdate(w)
        \/ VSign(w)
        \/ TBegin(w)
        \/ TParseForm(w)
        \/ TGetVideo(w)
        \/ TCreate(w)
        \/ TCopy(w)
        \/ TUpdate(w)

Spec == Init /\ [][Next]_vars

\* the steps of the handler a worker runs, once net/http has started it
Step(w) ==
    \/ VGetVideo(w) \/ VParseForm(w) \/ VCreateTemp(w) \/ VCopy(w) \/ VProbe(w)
    \/ VRemux(w) \/ VOpen(w) \/ VGenKey(w) \/ VPut(w) \/ VUpdate(w) \/ VSign(w)
    \/ TParseForm(w) \/ TGetVideo(w) \/ TCreate(w) \/ TCopy(w) \/ TUpdate(w)

\* One request on its own. A handler takes no lock, waits for no other
\* request and repeats no step, so whether it ends does not depend on the
\* requests beside it.
LiveWorkers == {1}
NextLive == \E w \in LiveWorkers : VBegin(w) \/ TBegin(w) \/ VCancel(w) \/ Step(w)

\* the Go scheduler runs every goroutine that can run, and every external
\* call is taken to return: a handler that can take its next step takes it
SpecLive == Init /\ [][NextLive]_vars /\ \A w \in LiveWorkers : WF_vars(Step(w))

(***************************************************************************)
(* The reference codec on its own: encode a bucket and a key, resolve a    *)
(* stored reference for a read, resolve the result again.                  *)
(***************************************************************************)
\* the characters references are built from here: a letter, the comma, a
\* space, and the two characters of the scheme delimiter
Chars == {"a", ",", " ", ":", "/"}
StringsUpTo(n) == UNION {[1..k -> Chars] : k \in 0..n}

NoResult == [video |-> NoVideo, err |-> "", presign |-> NoPresign]

CodecStart(phase, bucket, key, ref) ==
    [phase |-> phase, encoded |-> FALSE, bucket |-> bucket, key |-> key,
     video |-> [ID |-> "v1", UserID |-> Owner, VideoURL |-> ref, ThumbnailURL |-> Nil],
     res |-> NoResult, again |-> NoResult]

InitCodec ==
    /\ cfg \in [s3Bucket : Buckets, port : {"8091"}, assetsRoot : {"assets"}]
    /\ db = [v \in VideoIDs |->
                [ID |-> v, UserID |-> Owner, VideoURL |-> Nil, ThumbnailURL |-> Nil]]
    /\ disk = {}
    /\ s3 = {}
    /\ req = [w \in Workers |-> Idle]
    /\ \/ \E ref \in StringsUpTo(MaxRefLen) \cup {Nil} :
            codec = CodecStart("stored", <<>>, <<>>, ref)
       \/ \E bucket \in StringsUpTo(MaxPairLen) :
            \E key \in StringsUpTo(MaxPairLen - Len(bucket)) :
                codec = CodecStart("pair", bucket, key, Nil)

\* line 196: the reference the upload handler builds
CodecEncode ==
    /\ codec.phase = "pair"
    /\ codec' = [codec EXCEPT !.phase = "stored", !.encoded = TRUE,
                              !.video.VideoURL = EncodeRef(codec.bucket, codec.key)]
    /\ UNCHANGED <<cfg, db, disk, s3, req>>

\* dbVideoToSignedVideo(video) on a record read from the store
CodecResolve ==
    /\ codec.phase = "stored"
    /\ \E presignOk \in BOOLEAN :
        codec' = [codec EXCEPT !.phase = "resolved",
                               !.res = dbVideoToSignedVideo(codec.video, presignOk)]
    /\ UNCHANGED <<cfg, db, disk, s3, req>>

\* dbVideoToSignedVideo applied to the record it returned
CodecResolveAgain ==
    /\ codec.phase = "resolved"
    /\ codec.res.err = "nil"
    /\ \E presignOk \in BOOLEAN :
        codec' = [codec EXCEPT !.phase = "again",
                               !.again = dbVideoToSignedVideo(codec.res.video, presignOk)]
    /\ UNCHANGED <<cfg, db, disk, s3, req>>

NextCodec == CodecEncode \/ CodecResolve \/ CodecResolveAgain

SpecCodec == InitCodec /\ [][NextCodec]_vars

(***************************************************************************)
(* The classifier on its own: one probe result, classified.                *)
(***************************************************************************)

\* every width and height up to MaxDim is classified
MaxDim == 32

\* frame heights of real videos, classified with every width that lies
\* within two pixels of a width at which the answer changes
NearHeights == {400, 900, 1080, 1800, 1920, 2000}
NearWidths(h) ==
    UNION {{w \in (c - 2)..(c + 2) : w > 0} :
              c \in {(1591 * h) \div 900, (1609 * h) \div 900,
                     (221 * h) \div 400, (229 * h) \div 400}}
Dims ==
    ((1..MaxDim) \X (1..MaxDim))
    \cup {<<w, h>> : w \in UNION {NearWidths(x) : x \in NearHeights}, h \in NearHeights}
    \cup {<<1920, 1080>>, <<1080, 1920>>, <<1000, 1000>>}

InitClassify ==
    /\ cfg \in [s3Bucket : Buckets, port : {"8091"}, assetsRoot : {"assets"}]
    /\ db = [v \in VideoIDs |->
                [ID |-> v, UserID |-> Owner, VideoURL |-> Nil, ThumbnailURL |-> Nil]]
    /\ disk = {}
    /\ s3 = {}
    /\ req = [w \in Workers |-> Idle]
    /\ \E d \in Dims :
        codec = [phase |-> "probed",
                 out |-> [run |-> "ok", json |-> "ok",
                          streams |-> <<[Width |-> d[1], Height |-> d[2]]>>],
                 res |-> [orientation |-> <<>>, err |-> ""]]

\* getVideoAspectRatio from line 44 on, on the output ffprobe gave
Classify ==
    /\ codec.phase = "probed"
    /\ codec' = [codec EXCEPT !.phase = "classified",
                              !.res = getVideoAspectRatio(codec.out)]
    /\ UNCHANGED <<cfg, db, disk, s3, req>>

NextClassify == Classify

SpecClassify == InitClassify /\ [][NextClassify]_vars
(***************************************************************************)
(* Properties.                                                             *)
(***************************************************************************)
Is4xx(status) == 400 <= status /\ status <= 499
IsSigned(url) == Contains(url, SignedMarker)
Returned(w, kind) == req[w].pc = "done" /\ req[w].kind = kind
\* the request fetched the record and is not made by its owner
NotOwner(w) ==
    /\ req[w].userID # ""
    /\ req[w].video.ID # ""
    /\ req[w].video.UserID # req[w].userID
\* the request fetched the record and is made by its owner
ByOwner(w) == req[w].video.ID # "" /\ req[w].video.UserID = req[w].userID
NoSideEffects(w) ==
    /\ req[w].dst = NoPath /\ req[w].processedPath = NoPath
    /\ req[w].calls = NoCalls
    /\ ~\E f \in disk : f.by = req[w].id

\* C1: after a video upload has returned, with success or with any failure,
\* no temporary file that request created (received input, remuxed output)
\* is left on disk.
C1_NoTempFileRemains ==
    \A w \in Workers :
        Returned(w, "video") => ~\E f \in disk : f.by = req[w].id

\* C2: a video upload by an authenticated requester who is not the owner of
\* the fetched record ends with an authorization failure (4xx), having
\* created no temporary file, put no object and updated no record.
C2_NonOwnerHasNoEffect ==
    \A w \in Workers :
        (Returned(w, "video") /\ NotOwner(w)) =>
            /\ Is4xx(req[w].status)
            /\ req[w].failed = "AuthorizationFailure"
            /\ NoSideEffects(w)

C2_Witness ==
    \E w \in Workers :
        /\ Returned(w, "video") /\ NotOwner(w)
        /\ req[w].userID = "bob" /\ req[w].video.UserID = Owner

\* C3: the record store never holds a signed URL as a location reference;
\* a successful upload leaves the compact "bucket,key" in the copy it
\* persisted, and the signed URL only in the copy it returns.
C3_NoSignedURLPersisted ==
    /\ \A v \in VideoIDs : ~IsSigned(db[v].VideoURL)
    /\ \A w \in Workers :
        (Returned(w, "video") /\ req[w].status = 200) =>
            /\ IsSigned(req[w].body.VideoURL)
            /\ ~IsSigned(req[w].video.VideoURL)
            /\ req[w].video.VideoURL = cfg.s3Bucket \o <<",">> \o req[w].key

C3_Witness ==
    \E w \in Workers :
        /\ Returned(w, "video") /\ req[w].status = 200
        /\ IsSigned(req[w].body.VideoURL)
        /\ db[req[w].videoID].VideoURL = req[w].video.VideoURL

\* C4: the record update of a video upload leaves every field of the stored
\* record other than the location reference as it was in the store just
\* before the update, whatever was committed since the request's fetch.
C4_OnlyLocationChanges ==
    [][\A w \in Workers :
          (req[w].kind = "video" /\ req[w].pc = "update" /\ req'[w].pc = "sign") =>
              \A v \in VideoIDs :
                  /\ db'[v].ThumbnailURL = db[v].ThumbnailURL
                  /\ db'[v].UserID = db[v].UserID
                  /\ db'[v].ID = db[v].ID]_vars

\* C8: a video upload by the owner whose part has a missing, unparsable or
\* non-video/mp4 content type ends with a validation error (4xx) and has no
\* side effect: no temporary file, no probe, no remux, no put, no update.
BadVideoType(ct) ==
    \/ ct = <<>>
    \/ ParseMediaType(ct).err # "nil"
    \/ ParseMediaType(ct).mimeType # <<"video", "/", "mp4">>
C8_BadContentTypeRejected ==
    \A w \in Workers :
        (Returned(w, "video") /\ ByOwner(w) /\ req[w].formFile
            /\ BadVideoType(req[w].contentType)) =>
            /\ Is4xx(req[w].status)
            /\ req[w].failed = "ValidationError"
            /\ NoSideEffects(w)

C8_Witness ==
    \E w \in Workers :
        /\ Returned(w, "video") /\ ByOwner(w) /\ req[w].formFile
        /\ req[w].contentType = <<"video", "/", "avi">>
        /\ req[w].status = 400

\* C10: a thumbnail upload by the owner with content type image/jpeg,
\* image/png or image/gif is not rejected as a validation error, and one
\* that succeeds has stored the file {videoID}.{ext} and recorded its URL.
C10_ThumbnailTypesAccepted ==
    \A w \in Workers :
        (Returned(w, "thumbnail") /\ req[w].userID = Owner /\ req[w].videoID \in VideoIDs
            /\ req[w].formFile
            /\ req[w].contentType \in {<<"image", "/", "jpeg">>, <<"image", "/", "png">>,
                                       <<"image", "/", "gif">>}) =>
            req[w].failed # "ValidationError"

\* C9: a successful video upload has put the object under the key
\* <orientation>-<64 hex characters>.mp4, the orientation being the tag of
\* the dimensions probed in this upload; the update persists exactly
\* "<configured bucket>,<that key>"; the URL of the 200 response is signed
\* for that bucket and that key.
TagOf(streams) ==
    LET d == <<streams[1].Width, streams[1].Height>>
    IN  IF d = <<1920, 1080>> THEN <<"1", "6", ":", "9">>
        ELSE IF d = <<1080, 1920>> THEN <<"9", ":", "1", "6">>
        ELSE <<"o", "t", "h", "e", "r">>
IsHex(c) == c \in {"0", "1", "2", "3", "4", "5", "6", "7", "8", "9",
                   "a", "b", "c", "d", "e", "f"}
C9_KeyShape(w) ==
    LET r == req[w]
        tag == TagOf(r.probed)
        n == Len(tag)
    IN  /\ r.orientation = tag
        /\ Len(r.key) = n + 1 + 64 + 4
        /\ SubSeq(r.key, 1, n) = tag
        /\ r.key[n + 1] = "-"
        /\ \A i \in (n + 2)..(n + 65) : IsHex(r.key[i])
        /\ SubSeq(r.key, n + 66, n + 69) = <<".", "m", "p", "4">>
HasComma(s) == \E i \in 1..Len(s) : s[i] = ","
HasDelim(s) ==
    \E i \in 1..(Len(s) - 2) : s[i] = ":" /\ s[i + 1] = "/" /\ s[i + 2] = "/"
Blank(s) == \A i \in 1..Len(s) : IsSpace(s[i])
FirstComma(s) == CHOOSE i \in 1..Len(s) : s[i] = "," /\ \A j \in 1..(i - 1) : s[j] # ","
BeforeComma(s) == SubSeq(s, 1, FirstComma(s) - 1)
AfterComma(s) == SubSeq(s, FirstComma(s) + 1, Len(s))
\* the split does not give two parts, or a trimmed part is empty
MalformedRef(s) == ~HasComma(s) \/ Blank(BeforeComma(s)) \/ Blank(AfterComma(s))
\* no white space at either end
Trimmed(s) == s = <<>> \/ (~IsSpace(s[1]) /\ ~IsSpace(s[Len(s)]))
Resolved == codec.phase \in {"resolved", "again"}
CodecRef == codec.video.VideoURL

\* C5 as claimed: for every non-empty bucket and non-empty key without a
\* comma, decoding the encoded reference gives back that bucket and that
\* key, with no failure and no pass-through.
C5_RoundTrip_Original ==
    (Resolved /\ codec.encoded
        /\ codec.bucket # <<>> /\ codec.key # <<>>
        /\ ~HasComma(codec.bucket) /\ ~HasComma(codec.key)) =>
        /\ codec.res.err # "MalformedReference"
        /\ codec.res.presign # NoPresign
        /\ codec.res.presign.bucket = codec.bucket
        /\ codec.res.presign.key = codec.key

\* C5 as amended: the round trip holds for every non-empty bucket and key
\* that contain no comma, have no white space at either end and do not
\* contain "://".
C5_RoundTrip ==
    (Resolved /\ codec.encoded
        /\ codec.bucket # <<>> /\ codec.key # <<>>
        /\ ~HasComma(codec.bucket) /\ ~HasComma(codec.key)
        /\ Trimmed(codec.bucket) /\ Trimmed(codec.key)
        /\ ~HasDelim(codec.bucket) /\ ~HasDelim(codec.key)) =>
        /\ codec.res.err # "MalformedReference"
        /\ codec.res.presign # NoPresign
        /\ codec.res.presign.bucket = codec.bucket
        /\ codec.res.presign.key = codec.key

C5_Witness ==
    /\ Resolved /\ codec.encoded
    /\ codec.bucket = <<"a">> /\ codec.key = <<"a", ":", "a">>
    /\ codec.res.presign.key = <<"a", ":", "a">>

\* C6 as claimed: on a non-empty reference without "://", resolve-for-read
\* fails with MalformedReference, asking for no signed URL, exactly when
\* the split at the first comma does not give two parts or a trimmed part
\* is empty; otherwise it asks for a URL valid 15 minutes for the trimmed
\* bucket and key and returns the record with that URL as its reference.
C6_Asked ==
    [bucket |-> TrimSpace(BeforeComma(CodecRef)), key |-> TrimSpace(AfterComma(CodecRef)),
     minutes |-> 15]
C6_Malformed_Original ==
    (Resolved /\ CodecRef # Nil /\ CodecRef # <<>> /\ ~HasDelim(CodecRef)) =>
        IF MalformedRef(CodecRef)
        THEN codec.res.err = "MalformedReference" /\ codec.res.presign = NoPresign
        ELSE /\ codec.res.presign = C6_Asked
             /\ codec.res.err = "nil"
             /\ codec.res.video =
                    [codec.video EXCEPT !.VideoURL =
                        PresignedURL(C6_Asked.bucket, C6_Asked.key, 15)]

\* C6 as amended: ... otherwise it asks for a URL valid 15 minutes for the
\* trimmed bucket and key, and returns the record with that URL as its
\* reference when the object store gives one, or the object store's error
\* with the record unchanged when it does not.
C6_Malformed ==
    (Resolved /\ CodecRef # Nil /\ CodecRef # <<>> /\ ~HasDelim(CodecRef)) =>
        IF MalformedRef(CodecRef)
        THEN codec.res.err = "MalformedReference" /\ codec.res.presign = NoPresign
        ELSE /\ codec.res.presign = C6_Asked
             /\ codec.res.err \in {"nil", "StorageFailure"}
             /\ codec.res.err = "nil" =>
                    codec.res.video =
                        [codec.video EXCEPT !.VideoURL =
                            PresignedURL(C6_Asked.bucket, C6_Asked.key, 15)]
             /\ codec.res.err # "nil" => codec.res.video = codec.video

C6_Witness ==
    /\ Resolved /\ CodecRef = <<"a", ",", " ", "a">>
    /\ codec.res.err = "nil"
    /\ codec.res.presign = [bucket |-> <<"a">>, key |-> <<"a">>, minutes |-> 15]

\* C7: resolve-for-read returns the record unchanged, with no error and
\* asking for no signed URL, when the reference is absent, empty or contains
\* "://"; applied to its own result it gives that result again.
C7_PassThrough ==
    (Resolved /\ (CodecRef = Nil \/ CodecRef = <<>> \/ HasDelim(CodecRef))) =>
        /\ codec.res = [video |-> codec.video, err |-> "nil", presign |-> NoPresign]
        /\ codec.phase = "again" => codec.again = codec.res

C7_Witness ==
    /\ codec.phase = "again"
    /\ CodecRef = <<"a", ":", "/", "/">>
    /\ codec.again.video.VideoURL = <<"a", ":", "/", "/">>

(***************************************************************************)
(* The classifier, stated in the arithmetic of the real numbers.           *)
(***************************************************************************)

Classified == codec.phase = "classified"
ProbedWidth == codec.out.streams[1].Width
ProbedHeight == codec.out.streams[1].Height
Magnitude(n) == IF n < 0 THEN 0 - n ELSE n

\* |w/h - 16/9| and |w/h - 9/16| against 1/100, cleared of fractions
Within16x9(w, h) == 100 * Magnitude(9 * w - 16 * h) <= 9 * h
Within9x16(w, h) == 100 * Magnitude(16 * w - 9 * h) <= 16 * h
Inside16x9(w, h) == 100 * Magnitude(9 * w - 16 * h) < 9 * h
Inside9x16(w, h) == 100 * Magnitude(16 * w - 9 * h) < 16 * h

\* C11 as stated: the classifier answers "16:9" exactly when
\* |w/h - 16/9| <= 0.01, "9:16" exactly when that does not hold and
\* |w/h - 9/16| <= 0.01, and "other" otherwise.
C11_Classifier ==
    Classified =>
        /\ codec.res.err = "nil"
        /\ codec.res.orientation = <<"1", "6", ":", "9">>
               <=> Within16x9(ProbedWidth, ProbedHeight)
        /\ codec.res.orientation = <<"9", ":", "1", "6">>
               <=> (~Within16x9(ProbedWidth, ProbedHeight)
                    /\ Within9x16(ProbedWidth, ProbedHeight))

\* What the code does instead: the classifier answers "16:9" exactly when
\* |w/h - 16/9| < 0.01, "9:16" exactly when that does not hold and
\* |w/h - 9/16| < 0.01, and "other" otherwise; a ratio at exactly 0.01 from
\* a target (1609x900, 1591x900, 229x400, 221x400 and their multiples) is
\* "other", because the float64 difference is a little above the float64
\* 0.01. 1920x1080 is "16:9", 1080x1920 is "9:16", 1000x1000 is "other".
C11_StrictTolerance ==
    Classified =>
        /\ codec.res.err = "nil"
        /\ codec.res.orientation \in
               {<<"1", "6", ":", "9">>, <<"9", ":", "1", "6">>, <<"o", "t", "h", "e", "r">>}
        /\ codec.res.orientation = <<"1", "6", ":", "9">>
               <=> Inside16x9(ProbedWidth, ProbedHeight)
        /\ codec.res.orientation = <<"9", ":", "1", "6">>
               <=> (~Inside16x9(ProbedWidth, ProbedHeight)
                    /\ Inside9x16(ProbedWidth, ProbedHeight))
        /\ (ProbedWidth = 1920 /\ ProbedHeight = 1080)
               => codec.res.orientation = <<"1", "6", ":", "9">>
        /\ (ProbedWidth = 1080 /\ ProbedHeight = 1920)
               => codec.res.orientation = <<"9", ":", "1", "6">>
        /\ (ProbedWidth = 1000 /\ ProbedHeight = 1000)
               => codec.res.orientation = <<"o", "t", "h", "e", "r">>

\* a frame at exactly 0.01 from 16:9 has been classified
BoundaryFrameClassified ==
    /\ Classified
    /\ ProbedWidth = 1609 /\ ProbedHeight = 900
    /\ codec.res.orientation = <<"o", "t", "h", "e", "r">>

InFlight(w) == req[w].pc \notin {"idle", "done"}

\* C20: every video upload that has started ends, in exactly one terminal
\* state (Signed, with status 200, or Failed with one failure kind), and
\* writes exactly one response.
C20_Terminates ==
    /\ \A w \in Workers :
        (req[w].kind = "video" /\ InFlight(w)) ~> (req[w].pc = "done")
    /\ [](\A w \in Workers :
            req[w].kind = "video" =>
                /\ InFlight(w) => (req[w].responses = 0 /\ req[w].failed = ""
                                   /\ req[w].status = 0)
                /\ req[w].pc = "done" =>
                    /\ req[w].responses = 1
                    /\ (req[w].status = 200) # (req[w].failed # "")
                    /\ (req[w].status = 200) <=>
                           (req[w].stages # <<>>
                            /\ req[w].stages[Len(req[w].stages)] = "Signed"))
    /\ [][\A w \in Workers : req[w].pc = "done" => req'[w] = req[w]]_vars

\* a video upload is done and was served after validation, by a live record
C20_Witness ==
    \E w \in Workers :
        /\ Returned(w, "video")
        /\ req[w].status = 200
        /\ req[w].responses = 1
        /\ req[w].stages[Len(req[w].stages)] = "Signed"

(***************************************************************************)
(* Failure handling and ordering of the upload pipeline.                   *)
(***************************************************************************)

Is5xx(status) == 500 <= status /\ status <= 599
IsGateway(status) == status \in {502, 504}
Done(w, stage) == \E i \in 1..Len(req[w].stages) : req[w].stages[i] = stage
FilesOf(w) == {f \in disk : f.by = req[w].id}

\* C12: every failure of a video upload is answered in its status class:
\* invalid identifier, authentication, authorization, not found and
\* content type with 4xx; probe, remux, temporary file, key generation,
\* record update and signing with 5xx; a failed object put with a gateway
\* 5xx; and 200 is answered only by a request that reached Signed.
C12_StatusClasses ==
    \A w \in Workers :
        Returned(w, "video") =>
            /\ req[w].failed \in {"InvalidIdentifier", "AuthenticationFailure",
                                  "AuthorizationFailure", "NotFound", "ValidationError"}
                   => Is4xx(req[w].status)
            /\ req[w].failed \in {"ProbeFailure", "RemuxFailure", "TempFileFailure",
                                  "KeyGenerationFailure", "PersistenceFailure"}
                   => Is5xx(req[w].status)
            /\ (req[w].failed # "" /\ Done(w, "Persisted")) => Is5xx(req[w].status)
            /\ (req[w].failed # "" /\ req[w].calls.put = 1 /\ req[w].calls.update = 0)
                   => IsGateway(req[w].status)
            /\ req[w].failed # "" => (Is4xx(req[w].status) \/ Is5xx(req[w].status))
            /\ req[w].status = 200 =>
                   (req[w].failed = "" /\ Done(w, "Signed") /\ IsSigned(req[w].body.VideoURL))
            /\ req[w].failed = "" => req[w].status = 200

\* a put has failed and was answered with 502
C12_Witness ==
    \E w \in Workers :
        /\ Returned(w, "video")
        /\ req[w].calls.put = 1 /\ req[w].calls.update = 0
        /\ req[w].status = 502

StageOrder ==
    <<"Validated", "Probed", "Remuxed", "KeyDerived", "Uploaded", "Persisted", "Signed">>
IsPrefix(s, t) == Len(s) <= Len(t) /\ \A i \in 1..Len(s) : s[i] = t[i]
Stored(w) ==
    \E o \in s3 : o.bucket = cfg.s3Bucket /\ o.key = req[w].key

\* C13: within one video upload the stages succeed only in the order
\* Validated, Probed, Remuxed, KeyDerived, Uploaded, Persisted, Signed, each
\* after the one before it; the record is updated only after the put of the
\* object under the same key succeeded, and the object is put only after
\* the probe and the remux succeeded.
C13_StageOrder ==
    /\ [](\A w \in Workers :
            req[w].kind = "video" =>
                /\ IsPrefix(req[w].stages, StageOrder)
                /\ req[w].calls.put > 0 =>
                       /\ Done(w, "Probed") /\ Done(w, "Remuxed")
                       /\ req[w].orientation # <<>> /\ req[w].processedPath # NoPath
                /\ req[w].calls.update > 0 => (Done(w, "Uploaded") /\ Stored(w)))
    /\ [][\A w \in Workers :
            (req[w].kind = "video" /\ req'[w] # req[w] /\ db' # db) =>
                /\ Done(w, "Uploaded") /\ Stored(w)
                /\ db'[req[w].videoID].VideoURL = cfg.s3Bucket \o <<",">> \o req[w].key]_vars

\* an upload has passed through every stage
C13_Witness ==
    \E w \in Workers : req[w].kind = "video" /\ req[w].stages = StageOrder

ProbeGaveNoFrame(w) ==
    \/ req[w].probed = <<>>
    \/ req[w].probed[1].Width = 0
    \/ req[w].probed[1].Height = 0

\* C14: when the probe fails (the tool fails, its output cannot be parsed,
\* it reports no stream, or a width or height of zero) the upload ends with
\* a probe failure (5xx), its temporary input is removed, and it has run no
\* remux, put no object and updated no record.
C14_ProbeFailure ==
    \A w \in Workers :
        (req[w].kind = "video" /\ req[w].calls.probe > 0 /\ ProbeGaveNoFrame(w)) =>
            /\ req[w].pc = "done"
            /\ req[w].failed = "ProbeFailure"
            /\ Is5xx(req[w].status)
            /\ FilesOf(w) = {}
            /\ req[w].calls.remux = 0
            /\ req[w].calls.put = 0
            /\ req[w].calls.update = 0

\* a probe has reported a frame of width zero
C14_Witness ==
    \E w \in Workers :
        /\ Returned(w, "video")
        /\ req[w].probed # <<>>
        /\ req[w].probed[1].Width = 0
        /\ req[w].failed = "ProbeFailure"

CallsInOrder(w) ==
    <<req[w].calls.probe, req[w].calls.remux, req[w].calls.put,
      req[w].calls.update, req[w].calls.presign>>

\* C17: no stage is retried: one video upload calls the probe, the remux,
\* the put, the record update and the presigner at most once each, and the
\* first stage that fails ends the request, no later stage being called.
C17_NoRetry ==
    \A w \in Workers :
        req[w].kind = "video" =>
            /\ \A i \in 1..5 : CallsInOrder(w)[i] <= 1
            /\ \A i \in 1..4 : CallsInOrder(w)[i + 1] <= CallsInOrder(w)[i]
            /\ req[w].failed # "" => req[w].pc = "done"
            /\ req[w].failed = "ProbeFailure" => CallsInOrder(w) = <<1, 0, 0, 0, 0>>
            /\ req[w].failed = "RemuxFailure" => CallsInOrder(w) = <<1, 1, 0, 0, 0>>
            /\ (req[w].failed = "StorageFailure" /\ ~Done(w, "Uploaded"))
                   => CallsInOrder(w) = <<1, 1, 1, 0, 0>>
            /\ req[w].failed = "PersistenceFailure" => CallsInOrder(w) = <<1, 1, 1, 1, 0>>
            /\ req[w].calls.remux = 1 => Done(w, "Probed")
            /\ req[w].calls.put = 1 => Done(w, "Remuxed")
            /\ req[w].calls.update = 1 => Done(w, "Uploaded")
            /\ req[w].calls.presign = 1 => Done(w, "Persisted")

\* a put has failed, and neither a second put nor an update followed
C17_Witness ==
    \E w \in Workers :
        /\ Returned(w, "video")
        /\ req[w].failed = "StorageFailure"
        /\ CallsInOrder(w) = <<1, 1, 1, 0, 0>>

\* C18: when the record update fails after the put succeeded, the upload
\* ends with a persistence failure (5xx), the record keeps the reference it
\* had, the uploaded object stays in the store, and both temporary files
\* are removed; when signing fails after the update, the reference the
\* update stored stays in the record.
C18_UpdateFailure ==
    [][\A w \in Workers :
        /\ (req[w].pc = "update" /\ req'[w].pc = "done") =>
              /\ req'[w].failed = "PersistenceFailure"
              /\ Is5xx(req'[w].status)
              /\ db' = db
              /\ s3' = s3
              /\ \E o \in s3' : o.bucket = cfg.s3Bucket /\ o.key = req[w].key
              /\ {f \in disk' : f.by = req[w].id} = {}
        /\ (req[w].pc = "sign" /\ req'[w].pc = "done" /\ req'[w].failed # "") =>
              /\ Is5xx(req'[w].status)
              /\ db' = db
              /\ s3' = s3]_vars

\* an update has failed: the object is stored, the record does not name it
C18_Witness ==
    \E w \in Workers :
        /\ Returned(w, "video")
        /\ req[w].failed = "PersistenceFailure"
        /\ Stored(w)
        /\ db[req[w].videoID].VideoURL # cfg.s3Bucket \o <<",">> \o req[w].key
        /\ FilesOf(w) = {}

(***************************************************************************)
(* Cancellation of the request's context.                                  *)
(***************************************************************************)

Abandoned(w) == req[w].kind = "video" /\ req[w].canceled # ""
ProbeSucceeds(w) == VProbe(w) /\ req'[w].pc = "remux"
RemuxSucceeds(w) == VRemux(w) /\ req'[w].pc = "open"
PutSucceeds(w) == VPut(w) /\ req'[w].pc = "update"
UpdateSucceeds(w) == VUpdate(w) /\ req'[w].pc = "sign"
OutputPathFree(w) == ~\E f \in disk : f.path = req[w].dst \o <<".processing">>

Uploading(w) == req[w].kind = "video" /\ InFlight(w) /\ req[w].dst # NoPath
TempPaths(w) == {req[w].dst, req[w].dst \o <<".processing">>}

\* C16: the temporary paths of different uploads in flight are pairwise
\* distinct, the input path and the output path (input path plus
\* ".processing") alike, and no upload reads, overwrites or deletes a file
\* of another request.
C16_TempPathsDistinct ==
    /\ [](\A w, v \in Workers :
            (w # v /\ Uploading(w) /\ Uploading(v)) =>
                TempPaths(w) \cap TempPaths(v) = {})
    /\ [][\A w \in Workers :
            (req[w].kind = "video" /\ req'[w] # req[w]) =>
                /\ \A f \in disk \ disk' : f.by = req[w].id
                /\ \A f \in disk' \ disk :
                       f.by = req[w].id /\ ~\E g \in disk : g.path = f.path
                /\ (req[w].pc = "open" /\ req'[w].pc = "key") =>
                       \E f \in disk : f.path = req[w].processedPath /\ f.by = req[w].id]_vars

\* two uploads are in flight, each with its input and its output on disk
C16_Witness ==
    \E w, v \in Workers :
        /\ w # v /\ Uploading(w) /\ Uploading(v)
        /\ req[w].processedPath # NoPath /\ req[v].processedPath # NoPath
        /\ req[w].dst # req[v].dst
        /\ \A q \in {w, v} : \A x \in {req[q].dst, req[q].processedPath} :
               \E f \in disk : f.path = x /\ f.by = req[q].id

(***************************************************************************)
(* The references the upload pipeline writes.                              *)
(***************************************************************************)

\* s is a compact reference of this bucket and this key
WellFormedRef(s, bucket, key) ==
    /\ s # Nil
    /\ HasComma(s) /\ ~HasDelim(s) /\ ~MalformedRef(s)
    /\ BeforeComma(s) = bucket /\ AfterComma(s) = key
    /\ bucket # <<>> /\ key # <<>>
    /\ Trimmed(bucket) /\ Trimmed(key)

\* resolve-for-read takes s as a compact reference of this bucket and key
ResolvedAsPair(s, bucket, key) ==
    \A presignOk \in BOOLEAN :
        LET got == dbVideoToSignedVideo([NoVideo EXCEPT !.VideoURL = s], presignOk)
        IN  /\ got.err # "MalformedReference"
            /\ got.presign = [bucket |-> bucket, key |-> key, minutes |-> 15]

====
